---- MODULE Spec2Model ----
(***************************************************************************)
(* Model of test.py, the audio decryption trial script: the cipher         *)
(* primitives (xor_decrypt, rc4_decrypt, rc4mi_decrypt, the AES trials),   *)
(* the validator is_valid_mp3 and the trial sequence of main.              *)
(*                                                                         *)
(* Bytes are integers 0..255, byte strings are sequences of bytes.  A      *)
(* Python call either returns a value or raises: an outcome is a record    *)
(* [raised, exc, val].                                                     *)
(***************************************************************************)
EXTENDS Integers, Sequences, FiniteSets, TLC

VARIABLES
    encrypted_data, \* Spec: the bytes read from the audio file
    secure_key,     \* Spec: unhexlify(secure_key_hex)
    md5_key,        \* Spec: the MD5 digest of secure_key_hex, once computed
    pc,             \* Spec: the part of main that runs next
    idx,            \* Spec: the position in the loop that runs next
    results,        \* Spec: what main has reported, one record per trial
    files,          \* Spec: the files main has written
    p_data,         \* SpecPrim: the byte string the primitives were first given
    p_key,          \* SpecPrim: the key
    p_ops,          \* SpecPrim: the primitives applied so far, in order
    p_out,          \* SpecPrim: the outcome of the last call
    r_data,         \* SpecRc4mi: the data rc4mi_decrypt is called with
    r_key,          \* SpecRc4mi: the key
    r_phase,        \* SpecRc4mi: the loop of rc4mi_decrypt that runs next
    r_st,           \* SpecRc4mi: S, i and j
    r_n,            \* SpecRc4mi: the discard rounds run
    r_out           \* SpecRc4mi: out

runvars == <<encrypted_data, secure_key, md5_key, pc, idx, results, files>>
primvars == <<p_data, p_key, p_ops, p_out>>
rc4vars == <<r_data, r_key, r_phase, r_st, r_n, r_out>>
vars == <<runvars, primvars, rc4vars>>

(***************************************************************************)
(* Python values                                                           *)
(***************************************************************************)
Return(v) == [raised |-> FALSE, exc |-> "none", val |-> v]
Raise(e) == [raised |-> TRUE, exc |-> e, val |-> <<>>]
\* an exception whose text str(e) is the byte string msg, kept in val
RaiseMsg(e, msg) == [raised |-> TRUE, exc |-> e, val |-> msg]

\* a ^ b on non-negative integers
RECURSIVE BitXor(_, _)
BitXor(a, b) ==
    IF a = 0 THEN b
    ELSE IF b = 0 THEN a
    ELSE (((a % 2) + (b % 2)) % 2) + 2 * BitXor(a \div 2, b \div 2)

\* a & b on non-negative integers
RECURSIVE BitAnd(_, _)
BitAnd(a, b) ==
    IF a = 0 \/ b = 0 THEN 0
    ELSE ((a % 2) * (b % 2)) + 2 * BitAnd(a \div 2, b \div 2)

\* b'\x00' * n
Zeros(n) == [k \in 1..n |-> 0]

\* data[:n]
Take(data, n) == SubSeq(data, 1, IF n < Len(data) THEN n ELSE Len(data))

(***************************************************************************)
(* xor_decrypt                                                             *)
(***************************************************************************)
\* xor_decrypt with + in place of ^
xor_decrypt_add(data, key) ==
    IF Len(data) > 0 /\ Len(key) = 0
    THEN Raise("ZeroDivisionError")
    ELSE Return([k \in 1..Len(data) |->
                    (data[k] + key[((k - 1) % Len(key)) + 1]) % 256])

\* i % key_len is evaluated once per byte of data: with an empty key the
\* first iteration raises ZeroDivisionError, and with no data no iteration
\* runs at all.
xor_decrypt(data, key) ==
    IF Len(data) > 0 /\ Len(key) = 0
    THEN Raise("ZeroDivisionError")
    ELSE Return([k \in 1..Len(data) |->
                    BitXor(data[k], key[((k - 1) % Len(key)) + 1])])

(***************************************************************************)
(* RC4: the state is the permutation S of 0..255 and the two running       *)
(* indices i and j.                                                        *)
(***************************************************************************)
\* S is kept as the tuple of its 256 entries: entry x of the list is S[x + 1]
At(S, x) == S[x + 1]

\* S[a], S[b] = S[b], S[a]
Swap(S, a, b) == [S EXCEPT ![a + 1] = At(S, b), ![b + 1] = At(S, a)]

\* S = list(range(256)); j = 0
RC4Init == [S |-> <<>> \o [x \in 1..256 |-> x - 1], i |-> 0, j |-> 0]

\* one iteration of the KSA loop, for loop index st.i
KSAStep(st, key) ==
    LET j2 == (st.j + At(st.S, st.i) + key[(st.i % Len(key)) + 1]) % 256
    IN  [S |-> Swap(st.S, st.i, j2), i |-> st.i + 1, j |-> j2]

\* for i in range(256): the iterations from loop index st.i up to hi - 1, in
\* order (the range is run in two halves to keep the evaluation shallow)
RECURSIVE KSALoop(_, _, _)
KSALoop(st, key, hi) ==
    IF st.i >= hi THEN st
    ELSE IF st.i + 1 = hi THEN KSAStep(st, key)
    ELSE KSALoop(KSALoop(st, key, st.i + ((hi - st.i) \div 2)), key, hi)

\* the KSA loop followed by i = j = 0
KSA(key) == [KSALoop(RC4Init, key, 256) EXCEPT !.i = 0, !.j = 0]

\* the index update and swap shared by the discard loop and the PRGA loop
PRGAStep(st) ==
    LET i2 == (st.i + 1) % 256
        j2 == (st.j + At(st.S, i2)) % 256
    IN  [S |-> Swap(st.S, i2, j2), i |-> i2, j |-> j2]

\* the keystream byte S[(S[i] + S[j]) % 256]
KeystreamByte(st) == At(st.S, (At(st.S, st.i) + At(st.S, st.j)) % 256)

\* one iteration of the PRGA loop: acc holds the state and the output so
\* far, and the next byte of data is the one after the bytes already output
PRGAEmit(acc, data) ==
    LET st2 == PRGAStep(acc.st)
    IN  [st |-> st2,
         out |-> Append(acc.out,
                        BitXor(data[Len(acc.out) + 1], KeystreamByte(st2)))]

\* the iterations of the PRGA loop up to hi bytes of output
RECURSIVE PRGALoop(_, _, _)
PRGALoop(acc, data, hi) ==
    IF Len(acc.out) >= hi THEN acc
    ELSE IF Len(acc.out) + 1 = hi THEN PRGAEmit(acc, data)
    ELSE PRGALoop(PRGALoop(acc, data,
                           Len(acc.out) + ((hi - Len(acc.out)) \div 2)),
                  data, hi)

\* for byte in data
PRGA(st, data) == PRGALoop([st |-> st, out |-> <<>>], data, Len(data))

rc4_decrypt(data, key) ==
    IF Len(key) = 0
    THEN Raise("ZeroDivisionError")
    ELSE Return(PRGA(KSA(key), data).out)

\* one discard round too few
FakeRoundCountShort == 1024 - 1

\* range(1024)
FakeRoundCount == 1024

\* one iteration of the discard loop; acc.n counts the iterations run
FakeRound(acc) == [st |-> PRGAStep(acc.st), n |-> acc.n + 1]

\* the iterations of the discard loop up to hi
RECURSIVE FakeRoundsLoop(_, _)
FakeRoundsLoop(acc, hi) ==
    IF acc.n >= hi THEN acc
    ELSE IF acc.n + 1 = hi THEN FakeRound(acc)
    ELSE FakeRoundsLoop(FakeRoundsLoop(acc, acc.n + ((hi - acc.n) \div 2)), hi)

\* the discard loop left out
FakeRoundsNone(st) == st

\* for _ in range(1024)
FakeRounds(st) == FakeRoundsLoop([st |-> st, n |-> 0], FakeRoundCount).st

rc4mi_decrypt(data, key) ==
    IF Len(key) = 0
    THEN Raise("ZeroDivisionError")
    ELSE Return(PRGA(FakeRounds(KSA(key)), data).out)

(***************************************************************************)
(* is_valid_mp3                                                            *)
(***************************************************************************)
\* b'ID3'
ID3 == <<73, 68, 51>>

\* is_valid_mp3 with the length check off by one
is_valid_mp3_short(data) ==
    IF Len(data) < 3 THEN FALSE
    ELSE IF SubSeq(data, 1, 3) = ID3 THEN TRUE
    ELSE IF data[1] = 255 /\ BitAnd(data[2], 224) = 224 THEN TRUE
    ELSE FALSE

is_valid_mp3(data) ==
    IF Len(data) < 4 THEN FALSE
    ELSE IF SubSeq(data, 1, 3) = ID3 THEN TRUE
    ELSE IF data[1] = 255 /\ BitAnd(data[2], 224) = 224 THEN TRUE
    ELSE FALSE

(***************************************************************************)
(* Byte strings up to a length                                             *)
(***************************************************************************)
\* the byte strings over B of length at most n
RECURSIVE SeqsUpTo(_, _)
SeqsUpTo(B, n) ==
    IF n = 0 THEN {<<>>}
    ELSE LET shorter == SeqsUpTo(B, n - 1)
         IN  shorter \cup {Append(s, b) : s \in {t \in shorter : Len(t) = n - 1}, b \in B}

(***************************************************************************)
(* The AES trials.  Crypto.Cipher.AES is a library: AES.new rejects a key  *)
(* whose length is not 16, 24 or 32 bytes with a ValueError, and decrypt   *)
(* returns as many bytes as it is given.  Which bytes is left open: the    *)
(* library's answer is one of AESPlain, cut or zero-extended to the        *)
(* length decrypted.                                                       *)
(***************************************************************************)
AESPlain == {<<73, 68, 51, 4>>, <<0, 0, 0, 0>>}

\* "Incorrect AES key length (%d bytes)" % len(key)
RECURSIVE DecimalDigits(_)
DecimalDigits(n) ==
    IF n < 10 THEN <<48 + n>>
    ELSE Append(DecimalDigits(n \div 10), 48 + (n % 10))

IncorrectKeyLength(key) ==
    <<73, 110, 99, 111, 114, 114, 101, 99, 116, 32, 65, 69, 83, 32, 107, 101,
      121, 32, 108, 101, 110, 103, 116, 104, 32, 40>>
    \o DecimalDigits(Len(key)) \o <<32, 98, 121, 116, 101, 115, 41>>

\* AES.new(key, mode, ...)
AES_new(key) ==
    IF Len(key) \in {16, 24, 32}
    THEN Return(key)
    ELSE RaiseMsg("ValueError", IncorrectKeyLength(key))

\* cipher.decrypt(data), the library answering lib
AES_decrypt(lib, data) == Take(lib \o Zeros(Len(data)), Len(data))

\* f"Error: {e}".encode()
ErrorBytes(e) == <<69, 114, 114, 111, 114, 58, 32>> \o e.val

\* data + b'\x00' * (padded_len - len(data))
ZeroPad(data) ==
    LET padded_len == ((Len(data) + 15) \div 16) * 16
    IN  data \o Zeros(padded_len - Len(data))

aes_ecb_decrypt(data, key, lib) ==
    LET cipher == AES_new(key)
    IN  IF cipher.raised
        THEN Return(ErrorBytes(cipher))
        ELSE Return(Take(AES_decrypt(lib, ZeroPad(data)), Len(data)))

\* iv is None at the one call: the IV is b'\x00' * 16
aes_cbc_decrypt(data, key, lib) ==
    LET cipher == AES_new(key)
    IN  IF cipher.raised
        THEN Return(ErrorBytes(cipher))
        ELSE Return(Take(AES_decrypt(lib, ZeroPad(data)), Len(data)))

\* nonce is None at the one call: the nonce is b'\x00' * 8; no padding
aes_ctr_decrypt(data, key, lib) ==
    LET cipher == AES_new(key)
    IN  IF cipher.raised
        THEN Return(ErrorBytes(cipher))
        ELSE Return(AES_decrypt(lib, data))

(***************************************************************************)
(* main                                                                    *)
(***************************************************************************)
\* the labels of methods, in order
methods == <<"XOR", "RC4", "RC4MI", "AES-ECB", "AES-CBC", "AES-CTR">>

\* the loop over the MD5 key with CTR added
md5_modes_with_ctr == <<"AES-ECB", "AES-CBC", "AES-CTR">>

\* the modes of the loop over the MD5 key, in order
md5_modes == <<"AES-ECB", "AES-CBC">>

\* decrypt_func(encrypted_data, secure_key) for the method labelled name
decrypt_func(name, data, key, lib) ==
    CASE name = "XOR" -> xor_decrypt(data, key)
      [] name = "RC4" -> rc4_decrypt(data, key)
      [] name = "RC4MI" -> rc4mi_decrypt(data, key)
      [] name = "AES-ECB" -> aes_ecb_decrypt(data, key, lib)
      [] name = "AES-CBC" -> aes_cbc_decrypt(data, key, lib)
      [] name = "AES-CTR" -> aes_ctr_decrypt(data, key, lib)

\* whether the call for the method labelled name reaches cipher.decrypt
UsesLibrary(name, key) ==
    name \in {"AES-ECB", "AES-CBC", "AES-CTR", "MIUI-CTR"} /\ ~AES_new(key).raised

\* the library's possible answers for a trial
LibAnswers(name, key) == IF UsesLibrary(name, key) THEN AESPlain ELSE {<<>>}

\* hashlib.md5(secure_key_hex.encode()).digest(), tabulated for the keys of
\* RunKeys (the digest is of the lowercase hex text of the key)
Md5OfHex(key) ==
    CASE key = <<>> ->
           <<212, 29, 140, 217, 143, 0, 178, 4, 233, 128, 9, 152, 236, 248, 66, 126>>
      [] key = <<1, 2, 3, 4, 5>> ->
           <<178, 228, 205, 125, 0, 128, 20, 219, 248, 124, 182, 142, 254, 95, 131, 142>>
      [] key = <<34, 234, 166, 51, 132, 70, 215, 40, 140, 15, 126, 98, 124, 137, 0, 201>> ->
           <<92, 81, 146, 247, 60, 199, 0, 47, 106, 200, 181, 54, 75, 210, 123, 40>>

\* a handler that catches ValueError alone
ValueErrorOnly(exc) == exc = "ValueError"

\* except Exception: the exception classes the handlers of main catch
\* (those the calls of a trial raise)
Catches(exc) == exc \in {"ZeroDivisionError", "ValueError"}

\* what main reports for a trial: the call returned decrypted, the validator
\* was asked, and the file was written when save says so
Scored(name, keyname, decrypted, save) ==
    [name |-> name, key |-> keyname, error |-> "none", scored |-> TRUE,
     verdict |-> is_valid_mp3(decrypted), out |-> decrypted,
     saved |-> save /\ is_valid_mp3(decrypted)]

\* what main reports for a trial whose call raised exc
Failed(name, keyname, exc) ==
    [name |-> name, key |-> keyname, error |-> exc, scored |-> FALSE,
     verdict |-> FALSE, out |-> <<>>, saved |-> FALSE]

\* the body of a try statement of main, given the outcome r of the call
TryTrial(name, keyname, r, save, nextpc, nextidx) ==
    IF r.raised /\ ~Catches(r.exc)
    THEN /\ pc' = "crashed"
         /\ UNCHANGED <<idx, results, files>>
    ELSE /\ pc' = nextpc
         /\ idx' = nextidx
         /\ results' = Append(results,
                              IF r.raised THEN Failed(name, keyname, r.exc)
                              ELSE Scored(name, keyname, r.val, save))
         /\ files' = IF ~r.raised /\ save /\ is_valid_mp3(r.val)
                     THEN files \cup {[name |-> name, content |-> r.val]}
                     ELSE files

\* the longest encrypted_data of a run; its bytes (b'ID3' xor the first
\* bytes of the 16-byte key); the keys: empty, 5 bytes, the key of main
MaxRunLen == 4
RunBytes == {107, 174, 149}
RunKeys == {<<>>, <<1, 2, 3, 4, 5>>,
            <<34, 234, 166, 51, 132, 70, 215, 40, 140, 15, 126, 98, 124, 137, 0, 201>>}

PrimIdle ==
    /\ p_data = <<>>
    /\ p_key = <<>>
    /\ p_ops = <<>>
    /\ p_out = Return(<<>>)

Rc4Idle ==
    /\ r_data = <<>>
    /\ r_key = <<>>
    /\ r_phase = "idle"
    /\ r_st = RC4Init
    /\ r_n = 0
    /\ r_out = <<>>

Init ==
    /\ encrypted_data \in SeqsUpTo(RunBytes, MaxRunLen)
    /\ secure_key \in RunKeys
    /\ md5_key = <<>>
    /\ pc = "load"
    /\ idx = 1
    /\ results = <<>>
    /\ files = {}
    /\ PrimIdle
    /\ Rc4Idle

\* open(audio_file, 'rb'): the file is read, or FileNotFoundError and return
Load ==
    /\ pc = "load"
    /\ \E found \in BOOLEAN : pc' = IF found THEN "methods" ELSE "no_file"
    /\ UNCHANGED <<encrypted_data, secure_key, md5_key, idx, results, files>>
    /\ UNCHANGED <<primvars, rc4vars>>

\* one iteration of for name, decrypt_func in methods
MethodTrial ==
    /\ pc = "methods"
    /\ \E lib \in LibAnswers(methods[idx], secure_key) :
          TryTrial(methods[idx], "primary",
                   decrypt_func(methods[idx], encrypted_data, secure_key, lib),
                   TRUE,
                   IF idx = Len(methods) THEN "miui" ELSE "methods",
                   IF idx = Len(methods) THEN 1 ELSE idx + 1)
    /\ UNCHANGED <<encrypted_data, secure_key, md5_key>>
    /\ UNCHANGED <<primvars, rc4vars>>

\* the trial with the MIUI nonce: AES.new is called inside main's try
MiuiTrial ==
    /\ pc = "miui"
    /\ \E lib \in LibAnswers("MIUI-CTR", secure_key) :
          LET cipher == AES_new(secure_key)
          IN  TryTrial("MIUI-CTR", "primary",
                       IF cipher.raised THEN cipher
                       ELSE Return(AES_decrypt(lib, encrypted_data)),
                       TRUE, "derive", 1)
    /\ UNCHANGED <<encrypted_data, secure_key, md5_key>>
    /\ UNCHANGED <<primvars, rc4vars>>

\* md5_key = hashlib.md5(secure_key_hex.encode()).digest()
DeriveMd5 ==
    /\ pc = "derive"
    /\ md5_key' = Md5OfHex(secure_key)
    /\ pc' = "md5"
    /\ UNCHANGED <<encrypted_data, secure_key, idx, results, files>>
    /\ UNCHANGED <<primvars, rc4vars>>

\* one iteration of the loop over ECB and CBC with the MD5 key: a valid
\* result is printed and not written
Md5Trial ==
    /\ pc = "md5"
    /\ \E lib \in LibAnswers(md5_modes[idx], md5_key) :
          LET cipher == AES_new(md5_key)
          IN  TryTrial(md5_modes[idx], "md5",
                       IF cipher.raised THEN cipher
                       ELSE Return(Take(AES_decrypt(lib, ZeroPad(encrypted_data)),
                                        Len(encrypted_data))),
                       FALSE,
                       IF idx = Len(md5_modes) THEN "done" ELSE "md5",
                       idx + 1)
    /\ UNCHANGED <<encrypted_data, secure_key, md5_key>>
    /\ UNCHANGED <<primvars, rc4vars>>

Next == Load \/ MethodTrial \/ MiuiTrial \/ DeriveMd5 \/ Md5Trial

Spec == Init /\ [][Next]_vars

(***************************************************************************)
(* Properties of main                                                      *)
(***************************************************************************)
\* the trials of a run, in order: the label and the key each is given
TrialOrder ==
    <<<<"XOR", "primary">>, <<"RC4", "primary">>, <<"RC4MI", "primary">>,
      <<"AES-ECB", "primary">>, <<"AES-CBC", "primary">>, <<"AES-CTR", "primary">>,
      <<"MIUI-CTR", "primary">>, <<"AES-ECB", "md5">>, <<"AES-CBC", "md5">>>>

\* the number of trials reported when main is at pc, idx
Reported ==
    CASE pc = "methods" -> idx - 1
      [] pc = "miui" -> 6
      [] pc = "derive" -> 7
      [] pc = "md5" -> 6 + idx
      [] pc = "done" -> 9
      [] OTHER -> 0

\* how many results are of algorithm a with key k
Count(a, k) ==
    Cardinality({n \in 1..Len(results) : results[n].name = a /\ results[n].key = k})

\* C1: no exception leaves a trial: main never ends on an uncaught exception,
\* every trial before the current one has reported exactly one outcome, in
\* the fixed order, whatever the earlier outcomes were.
C1_FailureIsolation ==
    /\ pc # "crashed"
    /\ Len(results) = Reported
    /\ \A n \in 1..Len(results) :
          <<results[n].name, results[n].key>> = TrialOrder[n]

\* C1 witness: a run that ended with a trial that raised followed by trials
\* that were scored
C1_Witness ==
    /\ pc = "done"
    /\ results[1].error = "ZeroDivisionError"
    /\ results[4].scored
    /\ results[7].error = "ValueError"
    /\ results[9].scored

\* C2: an AES-ECB trial whose key is not 16 bytes long is recorded as an error
\* and its value is not scored by the validator.
C2_UnsupportedKeyRecorded ==
    \A n \in 1..Len(results) :
        (results[n].name = "AES-ECB" /\ results[n].key = "primary"
            /\ Len(secure_key) # 16)
        => (results[n].error # "none" /\ ~results[n].scored)

\* C3: the candidate plaintext of a trial is written if and only if the
\* validator's verdict for the trial is true.
C3_SavedIffValid ==
    \A n \in 1..Len(results) :
        /\ results[n].saved <=> results[n].verdict
        /\ results[n].verdict =>
              \E f \in files : f.name = results[n].name /\ f.content = results[n].out

\* C5 as claimed: at the end of a run each of AES-ECB, AES-CBC and AES-CTR
\* has one result with the primary key and one with the MD5 key, and each
\* stream cipher has one result with the primary key.
C5_AsClaimed ==
    pc = "done" =>
        /\ \A a \in {"AES-ECB", "AES-CBC", "AES-CTR"} :
              Count(a, "primary") = 1 /\ Count(a, "md5") = 1
        /\ \A a \in {"XOR", "RC4", "RC4MI"} : Count(a, "primary") = 1

\* C5 amended: at the end of a run each of the six methods and the MIUI
\* nonce CTR trial has exactly one result with the primary key, AES-ECB and
\* AES-CBC have exactly one result with the MD5 key, and no other algorithm
\* has a result with the MD5 key.
C5_TrialPairs ==
    pc = "done" =>
        \A a \in {"XOR", "RC4", "RC4MI", "AES-ECB", "AES-CBC", "AES-CTR", "MIUI-CTR"} :
            /\ Count(a, "primary") = 1
            /\ Count(a, "md5") = (IF a \in {"AES-ECB", "AES-CBC"} THEN 1 ELSE 0)

\* C5 witness: a finished run in which both MD5 key trials decrypted
C5_Witness ==
    /\ pc = "done"
    /\ Len(secure_key) = 16
    /\ results[8].scored /\ results[9].scored

\* C9: for an input whose length is not a multiple of 16, the AES-ECB and
\* AES-CBC trials return a value of exactly the length of the input.
C9_OutputLength ==
    \A n \in 1..Len(results) :
        (results[n].name \in {"AES-ECB", "AES-CBC"} /\ Len(encrypted_data) % 16 # 0)
        => (results[n].error = "none" /\ Len(results[n].out) = Len(encrypted_data))

(***************************************************************************)
(* SpecPrim: the primitives and the validator applied, one call after the  *)
(* other, to byte strings and keys drawn from bounded sets.  p_out is the  *)
(* outcome of the last call, and the next cipher call is given its value.  *)
(***************************************************************************)
\* the longest byte string given to a cipher, the longest given to the
\* validator, and the most calls made in a row
MaxPrimLen == 2
MaxValidLen == 4
MaxOps == 2
PrimBytes == {0, 73, 255}
ValidBytes == {0, 51, 68, 73, 223, 224, 255}
PrimKeys == {<<>>, <<19>>, <<170, 187>>}

RunIdle ==
    /\ encrypted_data = <<>>
    /\ secure_key = <<>>
    /\ md5_key = <<>>
    /\ pc = "idle"
    /\ idx = 1
    /\ results = <<>>
    /\ files = {}

InitPrim ==
    /\ p_data \in SeqsUpTo(PrimBytes, MaxPrimLen) \cup SeqsUpTo(ValidBytes, MaxValidLen)
    /\ p_key \in PrimKeys
    /\ p_ops = <<>>
    /\ p_out = Return(p_data)
    /\ RunIdle
    /\ Rc4Idle

\* a further call can be made on the current byte string
CanCall ==
    /\ Len(p_ops) < MaxOps
    /\ ~p_out.raised
    /\ \A k \in 1..Len(p_ops) : p_ops[k] # "valid"

\* the ciphers are called on the byte strings of at most MaxPrimLen bytes
CipherInput == p_data \in SeqsUpTo(PrimBytes, MaxPrimLen)

CallXor ==
    /\ CanCall
    /\ CipherInput
    /\ p_out' = xor_decrypt(p_out.val, p_key)
    /\ p_ops' = Append(p_ops, "xor")
    /\ UNCHANGED <<p_data, p_key>>
    /\ UNCHANGED <<runvars, rc4vars>>

CallRc4 ==
    /\ CanCall
    /\ CipherInput
    /\ p_out' = rc4_decrypt(p_out.val, p_key)
    /\ p_ops' = Append(p_ops, "rc4")
    /\ UNCHANGED <<p_data, p_key>>
    /\ UNCHANGED <<runvars, rc4vars>>

CallRc4mi ==
    /\ CanCall
    /\ CipherInput
    /\ p_out' = rc4mi_decrypt(p_out.val, p_key)
    /\ p_ops' = Append(p_ops, "rc4mi")
    /\ UNCHANGED <<p_data, p_key>>
    /\ UNCHANGED <<runvars, rc4vars>>

\* a call of the validator on the current byte string
CallValid ==
    /\ CanCall
    /\ p_out' = Return(is_valid_mp3(p_out.val))
    /\ p_ops' = Append(p_ops, "valid")
    /\ UNCHANGED <<p_data, p_key>>
    /\ UNCHANGED <<runvars, rc4vars>>

NextPrim == CallXor \/ CallRc4 \/ CallRc4mi \/ CallValid

SpecPrim == InitPrim /\ [][NextPrim]_vars

(***************************************************************************)
(* Properties of the primitives                                            *)
(***************************************************************************)
\* C4: xor_decrypt with a key of length zero fails with EmptyKey, for every
\* ciphertext.
C4_EmptyKeyRejected ==
    (p_ops = <<"xor">> /\ p_key = <<>>)
    => (p_out.raised /\ p_out.exc = "EmptyKey")

\* C6 as claimed: for a non-empty key and a non-empty ciphertext the output
\* of rc4mi_decrypt differs from the output of rc4_decrypt.
C6_AsClaimed ==
    (p_ops = <<"rc4mi">> /\ Len(p_key) > 0 /\ Len(p_data) > 0)
    => p_out.val # rc4_decrypt(p_data, p_key).val

\* C6 amended: for a non-empty key and a ciphertext of length n > 0 the
\* output of rc4mi_decrypt differs from the output of rc4_decrypt exactly
\* when the first n bytes of the RC4 keystream of the key differ from the n
\* bytes of that keystream that follow its first 1024.
C6_DiffersIffKeystreamDiffers ==
    (p_ops = <<"rc4mi">> /\ Len(p_key) > 0 /\ Len(p_data) > 0)
    => LET n == Len(p_data)
           keystream == rc4_decrypt(Zeros(1024 + n), p_key).val
       IN  (p_out.val # rc4_decrypt(p_data, p_key).val)
           <=> (SubSeq(keystream, 1, n) # SubSeq(keystream, 1025, 1024 + n))

\* C6 witness: rc4mi_decrypt has run on a non-empty ciphertext with a
\* non-empty key and its output differs from that of rc4_decrypt
C6_Witness ==
    /\ p_ops = <<"rc4mi">>
    /\ Len(p_key) > 0
    /\ Len(p_data) > 0
    /\ ~p_out.raised
    /\ p_out.val # rc4_decrypt(p_data, p_key).val

\* C7: xor_decrypt applied twice, and rc4_decrypt applied twice, with the
\* same non-empty key to a non-empty byte string give the byte string back.
C7_SelfInverse ==
    ((p_ops = <<"xor", "xor">> \/ p_ops = <<"rc4", "rc4">>)
        /\ Len(p_data) > 0 /\ Len(p_key) > 0)
    => (~p_out.raised /\ p_out.val = p_data)

\* C7 witness: xor_decrypt has been applied twice with a non-empty key to a
\* non-empty byte string that one application changes
C7_Witness ==
    /\ p_ops = <<"xor", "xor">>
    /\ Len(p_data) > 0
    /\ Len(p_key) > 0
    /\ xor_decrypt(p_data, p_key).val # p_data
    /\ p_out.val = p_data

\* C8: is_valid_mp3(D) is true exactly when D has at least 4 bytes and starts
\* with 'ID3' or with 0xFF followed by a byte whose top three bits are set;
\* it is false for fewer than 4 bytes and for all-zero input.
C8_ValidatorExact ==
    p_ops = <<"valid">> =>
        /\ p_out.val = (/\ Len(p_data) >= 4
                        /\ \/ (p_data[1] = 73 /\ p_data[2] = 68 /\ p_data[3] = 51)
                           \/ (p_data[1] = 255 /\ p_data[2] \div 32 = 7))
        /\ Len(p_data) < 4 => p_out.val = FALSE
        /\ (\A k \in 1..Len(p_data) : p_data[k] = 0) => p_out.val = FALSE

\* C8 witness: the validator has accepted a frame sync header
C8_Witness ==
    /\ p_ops = <<"valid">>
    /\ Len(p_data) = 4
    /\ p_data[1] = 255
    /\ p_data[2] = 224
    /\ p_out.val = TRUE

(***************************************************************************)
(* SpecRc4mi: rc4mi_decrypt run one loop iteration at a time.              *)
(***************************************************************************)
\* the longest data of a stepped rc4mi_decrypt call
MaxRc4Len == 1

InitRc4mi ==
    /\ r_data \in SeqsUpTo(PrimBytes, MaxRc4Len)
    /\ r_key \in PrimKeys
    /\ r_phase = "ksa"
    /\ r_st = RC4Init
    /\ r_n = 0
    /\ r_out = <<>>
    /\ RunIdle
    /\ PrimIdle

\* one iteration of the KSA loop; key[i % len(key)] raises with an empty key
Rc4miKSAIter ==
    /\ r_phase = "ksa"
    /\ r_st.i < 256
    /\ IF Len(r_key) = 0
       THEN r_phase' = "raised" /\ UNCHANGED r_st
       ELSE r_st' = KSAStep(r_st, r_key) /\ UNCHANGED r_phase
    /\ UNCHANGED <<r_data, r_key, r_n, r_out>>
    /\ UNCHANGED <<runvars, primvars>>

\* i = j = 0
Rc4miKSAEnd ==
    /\ r_phase = "ksa"
    /\ r_st.i = 256
    /\ r_st' = [r_st EXCEPT !.i = 0, !.j = 0]
    /\ r_phase' = "fake"
    /\ UNCHANGED <<r_data, r_key, r_n, r_out>>
    /\ UNCHANGED <<runvars, primvars>>

\* one iteration of the discard loop
Rc4miFakeIter ==
    /\ r_phase = "fake"
    /\ r_n < FakeRoundCount
    /\ LET acc == FakeRound([st |-> r_st, n |-> r_n])
       IN  r_st' = acc.st /\ r_n' = acc.n
    /\ UNCHANGED <<r_data, r_key, r_phase, r_out>>
    /\ UNCHANGED <<runvars, primvars>>

\* out = bytearray()
Rc4miFakeEnd ==
    /\ r_phase = "fake"
    /\ r_n = FakeRoundCount
    /\ r_phase' = "prga"
    /\ r_out' = <<>>
    /\ UNCHANGED <<r_data, r_key, r_st, r_n>>
    /\ UNCHANGED <<runvars, primvars>>

\* one iteration of the PRGA loop
Rc4miPRGAIter ==
    /\ r_phase = "prga"
    /\ Len(r_out) < Len(r_data)
    /\ LET acc == PRGAEmit([st |-> r_st, out |-> r_out], r_data)
       IN  r_st' = acc.st /\ r_out' = acc.out
    /\ UNCHANGED <<r_data, r_key, r_phase, r_n>>
    /\ UNCHANGED <<runvars, primvars>>

\* return bytes(out)
Rc4miReturn ==
    /\ r_phase = "prga"
    /\ Len(r_out) = Len(r_data)
    /\ r_phase' = "done"
    /\ UNCHANGED <<r_data, r_key, r_st, r_n, r_out>>
    /\ UNCHANGED <<runvars, primvars>>

NextRc4mi ==
    \/ Rc4miKSAIter
    \/ Rc4miKSAEnd
    \/ Rc4miFakeIter
    \/ Rc4miFakeEnd
    \/ Rc4miPRGAIter
    \/ Rc4miReturn

SpecRc4mi == InitRc4mi /\ [][NextRc4mi]_vars

\* S holds each of 0..255 once
IsPermutation(S) == Len(S) = 256 /\ {S[k] : k \in 1..256} = 0..255

\* 1024-byte prefixes
Prefixes == {[k \in 1..1024 |-> 0], [k \in 1..1024 |-> (7 * k) % 256]}

\* C10: rc4mi_decrypt is rc4_decrypt with 1024 keystream bytes discarded: S
\* is a permutation of 0..255 at every step, the key schedule is that of
\* rc4_decrypt, S, i and j after the discard loop are those of rc4_decrypt
\* after 1024 bytes of output, and the value returned is the last len(D)
\* bytes of rc4_decrypt(P ++ D, K) for a 1024-byte prefix P.
C10_DiscardsKeystream ==
    /\ IsPermutation(r_st.S)
    /\ (r_phase = "fake" /\ r_n = 0) => r_st = KSA(r_key)
    /\ (r_phase = "prga" /\ r_out = <<>>) =>
          \A P \in Prefixes : r_st = PRGA(KSA(r_key), P).st
    /\ r_phase = "done" =>
          /\ r_out = rc4mi_decrypt(r_data, r_key).val
          /\ \A P \in Prefixes :
                r_out = SubSeq(rc4_decrypt(P \o r_data, r_key).val,
                               1025, 1024 + Len(r_data))

\* C10 witness: rc4mi_decrypt has returned the decryption of a non-empty
\* byte string
C10_Witness ==
    /\ r_phase = "done"
    /\ r_n = 1024
    /\ Len(r_data) > 0
    /\ Len(r_out) = Len(r_data)

====
